---- MODULE Spec2Model ----
(***************************************************************************)
(* A model of whisper_server.py: the model-name normalizer, the model      *)
(* cache with its compute-type fallback (get_model), the transcription     *)
(* runner (run_transcription) and the HTTP handler (create_transcription). *)
(*                                                                         *)
(* Python strings are sequences of one-character strings, so that strip(), *)
(* lower(), "in" (substring) and f-string concatenation are computed and   *)
(* not assumed.  None is the value NoneVal.                                *)
(*                                                                         *)
(* Six specifications share the definitions:                               *)
(*   Spec        the server as it runs: create_transcription is an         *)
(*               "async def" endpoint, so every request is a coroutine of  *)
(*               the one event loop and gives the loop up only at          *)
(*               "await file.read()";                                      *)
(*   SpecThreads get_model called directly from several threads, under any *)
(*               interleaving (the contract threading.Lock is there for);  *)
(*   SpecNorm    normalize_model_name applied to inputs drawn from a       *)
(*               bounded set, for every configured default;                *)
(*   SpecCandidates get_model under every compute-type setting;            *)
(*   SpecSegments   run_transcription from model.transcribe on, for every  *)
(*               sequence of up to MaxSegments segments;                   *)
(*   SpecLive    requests and other threads calling get_model side by      *)
(*               side, under a fair scheduler.                             *)
(***************************************************************************)
EXTENDS Naturals, Sequences, FiniteSets, TLC

VARIABLES
    DEFAULT_MODEL_NAME,     \* line 18, read from the environment at import
    WHISPER_COMPUTE_TYPE,   \* line 20, read from the environment at import
    _MODEL_CACHE,           \* line 29: canonical name -> handle
    _MODEL_LOCK,            \* line 30: 0 when free, else the holder
    loop,                   \* the event loop: 0 when idle, else the running coroutine
    files,                  \* the temporary directory: path -> bytes
    nextTmp,                \* names handed out by tempfile so far
    nextObj,                \* WhisperModel objects constructed so far
    pc,                     \* each process's position
    req,                    \* each request's inputs (filename, form, query, upload)
    loc,                    \* create_transcription's locals
    gm,                     \* get_model's locals
    exc,                    \* the exception propagating in each process
    resp,                   \* each request's HTTP response
    hist,                   \* history of each process (what it did, for the claims)
    loads,                  \* history: successful constructor calls per name
    returned,               \* history: handles get_model has returned per name
    failed,                 \* history: canonical names a get_model call failed for
    lastCall,               \* history: the direct get_model call the last step ended
    normIn,                 \* SpecNorm: the requested names
    normOut,                \* SpecNorm: what normalize_model_name returned
    rtCall                  \* SpecSegments: a run_transcription call from line 116 on

vars == <<DEFAULT_MODEL_NAME, WHISPER_COMPUTE_TYPE, _MODEL_CACHE, _MODEL_LOCK, loop,
          files, nextTmp, nextObj, pc, req, loc, gm, exc, resp, hist, loads,
          returned, failed, lastCall, normIn, normOut, rtCall>>

---------------------------------------------------------------------------
(* Bounds *)

NumProcs == 2
MaxPad == 1
MaxSegments == 3

Procs == 1..NumProcs

---------------------------------------------------------------------------
(* Python str *)

\* None: a one-element sequence no str equals (every str is a sequence of characters)
NoneVal == <<"None">>

Str(s) == s # NoneVal

UpperChars == <<"A", "B", "C", "D", "E", "F", "G", "H", "I", "J", "K", "L", "M",
                "N", "O", "P", "Q", "R", "S", "T", "U", "V", "W", "X", "Y", "Z">>
LowerChars == <<"a", "b", "c", "d", "e", "f", "g", "h", "i", "j", "k", "l", "m",
                "n", "o", "p", "q", "r", "s", "t", "u", "v", "w", "x", "y", "z">>

LowerChar(c) ==
    IF \E i \in 1..Len(UpperChars) : UpperChars[i] = c
    THEN LowerChars[CHOOSE i \in 1..Len(UpperChars) : UpperChars[i] = c]
    ELSE c

\* str.lower(): every character of the string's value, lowered
Lower(s) ==
    LET lower[t \in {s}] == [i \in 1..Len(t) |-> LowerChar(t[i])]
    IN  lower[s]

\* the characters str.strip() removes
IsSpace(c) == c \in {" ", "\t", "\n"}

RECURSIVE LStrip(_)
LStrip(s) == IF s # <<>> /\ IsSpace(Head(s)) THEN LStrip(Tail(s)) ELSE s

RECURSIVE RStrip(_)
RStrip(s) ==
    IF s # <<>> /\ IsSpace(s[Len(s)]) THEN RStrip(SubSeq(s, 1, Len(s) - 1)) ELSE s

\* str.strip()
Strip(s) == RStrip(LStrip(s))

\* "phrase in s"
Contains(s, phrase) ==
    \E i \in 0..Len(s) :
        /\ i + Len(phrase) <= Len(s)
        /\ SubSeq(s, i + 1, i + Len(phrase)) = phrase

\* "x or y" on strings and None: x when x is truthy, else y
Or(x, y) == IF Str(x) /\ x # <<>> THEN x ELSE y

S_auto == <<"a", "u", "t", "o">>
S_float16 == <<"f", "l", "o", "a", "t", "1", "6">>
S_int8_float32 == <<"i", "n", "t", "8", "_", "f", "l", "o", "a", "t", "3", "2">>
S_int8 == <<"i", "n", "t", "8">>
S_large_v3_turbo == <<"l", "a", "r", "g", "e", "-", "v", "3", "-", "t", "u", "r", "b", "o">>
S_large_v3 == <<"l", "a", "r", "g", "e", "-", "v", "3">>
S_base == <<"b", "a", "s", "e">>

---------------------------------------------------------------------------
(* Configuration and the normalizer *)

WHISPER_DEVICE == S_auto

\* MODEL_ALIASES, a dict: key -> value
MODEL_ALIASES == [k \in {S_large_v3_turbo} |-> S_large_v3]

\* dict.get(key): the value, or None
AliasGet(key) == IF key \in DOMAIN MODEL_ALIASES THEN MODEL_ALIASES[key] ELSE NoneVal

\* (a variant that looks the alias up without lower())
NormalizeNoLower(default, requested_name) ==
    LET normalized == Or(Strip(Or(requested_name, <<>>)), default)
        alias == AliasGet(normalized)
    IN  IF Str(alias) /\ alias # <<>> THEN alias ELSE normalized

\* normalize_model_name, with DEFAULT_MODEL_NAME as it is configured
Normalize(default, requested_name) ==
    LET normalized == Or(Strip(Or(requested_name, <<>>)), default)
        alias == AliasGet(Lower(normalized))
    IN  IF Str(alias) /\ alias # <<>> THEN alias ELSE normalized

normalize_model_name(requested_name) == Normalize(DEFAULT_MODEL_NAME, requested_name)

\* (a variant whose add() appends without looking for the candidate in the list)
CandidatesNoDedup(configured_raw) ==
    LET configured == Or(Strip(Or(configured_raw, S_auto)), S_auto)
        c1 == <<configured>>
        c2 == IF Lower(configured) = S_float16
              THEN c1 \o <<S_int8_float32, S_int8>>
              ELSE c1
    IN  Append(c2, S_auto)

\* _compute_type_candidates, with WHISPER_COMPUTE_TYPE as it is configured
Candidates(configured_raw) ==
    LET configured == Or(Strip(Or(configured_raw, S_auto)), S_auto)
        configured_lower == Lower(configured)
        add(candidates, candidate) ==
            IF candidate # <<>> /\ \A i \in 1..Len(candidates) : candidates[i] # candidate
            THEN Append(candidates, candidate)
            ELSE candidates
        c1 == add(<<>>, configured)
        c2 == IF configured_lower = S_float16
              THEN add(add(c1, S_int8_float32), S_int8)
              ELSE c1
    IN  add(c2, S_auto)

_compute_type_candidates == Candidates(WHISPER_COMPUTE_TYPE)

---------------------------------------------------------------------------
(* Values *)

\* an exception object: its identity, its class, str(exc), and __cause__
\* (identity: the process that raised it and its number among those it raised)
NoExc == [id |-> <<0, 0>>, type |-> "none", msg |-> <<>>, cause |-> <<0, 0>>]

\* a WhisperModel handle: its identity and the constructor's arguments
NoModel == [id |-> 0, name |-> <<>>, device |-> <<>>, compute_type |-> <<>>]

NoBody == [model |-> <<>>, text |-> <<>>, segments |-> <<>>]
NoResp == [status |-> 0, detail |-> <<>>, body |-> NoBody]

NoPath == <<0, <<>>>>

\* HTTPException(status_code, detail)
HTTPException(status_code, detail) ==
    [status |-> status_code, detail |-> detail, body |-> NoBody]

D400_filename == <<"U", "p", "l", "o", "a", "d", "e", "d", " ", "f", "i", "l", "e", " ",
                   "m", "u", "s", "t", " ", "i", "n", "c", "l", "u", "d", "e", " ", "a",
                   " ", "f", "i", "l", "e", "n", "a", "m", "e", ".">>
D400_read == <<"U", "n", "a", "b", "l", "e", " ", "t", "o", " ", "r", "e", "a", "d", " ",
               "u", "p", "l", "o", "a", "d", "e", "d", " ", "f", "i", "l", "e", ".">>
D400_empty == <<"U", "p", "l", "o", "a", "d", "e", "d", " ", "f", "i", "l", "e", " ",
                "i", "s", " ", "e", "m", "p", "t", "y", ".">>
D503_head == <<"M", "o", "d", "e", "l", " ", "'">>
D503_tail == <<"'", " ", "i", "s", " ", "n", "o", "t", " ", "a", "v", "a", "i", "l", "a",
               "b", "l", "e", " ", "l", "o", "c", "a", "l", "l", "y", ".", " ", "D", "o",
               "w", "n", "l", "o", "a", "d", " ", "i", "t", " ", "b", "e", "f", "o", "r",
               "e", " ", "r", "e", "t", "r", "y", "i", "n", "g", ".">>
D500 == <<"W", "h", "i", "s", "p", "e", "r", " ", "t", "r", "a", "n", "s", "c", "r", "i",
          "p", "t", "i", "o", "n", " ", "f", "a", "i", "l", "e", "d", ".">>
\* the body Starlette sends for an exception no handler caught
D500_unhandled == <<"I", "n", "t", "e", "r", "n", "a", "l", " ", "S", "e", "r", "v", "e",
                    "r", " ", "E", "r", "r", "o", "r">>

Unable_head == <<"U", "n", "a", "b", "l", "e", " ", "t", "o", " ", "l", "o", "a", "d", " ",
                 "W", "h", "i", "s", "p", "e", "r", " ", "m", "o", "d", "e", "l", " ", "'">>
Unable_tail == <<"'", " ", "w", "i", "t", "h", " ", "a", "n", "y", " ", "c", "o", "m", "p",
                 "u", "t", "e", " ", "t", "y", "p", "e", ".">>
NotLocal == <<" ", "M", "o", "d", "e", "l", " ", "f", "i", "l", "e", "s", " ", "a", "r",
              "e", " ", "n", "o", "t", " ", "a", "v", "a", "i", "l", "a", "b", "l", "e",
              " ", "l", "o", "c", "a", "l", "l", "y", ".">>

Phrase_not_found == <<"n", "o", "t", " ", "f", "o", "u", "n", "d">>
Phrase_no_such_file == <<"n", "o", " ", "s", "u", "c", "h", " ", "f", "i", "l", "e">>
Phrase_could_not == <<"c", "o", "u", "l", "d", " ", "n", "o", "t", " ", "b", "e", " ",
                      "f", "o", "u", "n", "d">>

\* (a variant that does not lower the text first)
MissingCaseSensitive(last_error) ==
    \E phrase \in {Phrase_not_found, Phrase_no_such_file, Phrase_could_not} :
        Contains(last_error.msg, phrase)

\* lines 101-105: error_text = str(last_error).lower();
\* any(phrase in error_text for phrase in [...])
Missing(last_error) ==
    LET error_text == Lower(last_error.msg)
    IN  \E phrase \in {Phrase_not_found, Phrase_no_such_file, Phrase_could_not} :
            Contains(error_text, phrase)

---------------------------------------------------------------------------
(* What the environment supplies *)

Spaces(n) == [i \in 1..n |-> " "]

\* a name with up to MaxPad blanks on each side
Padded(w) == {Spaces(a) \o w \o Spaces(b) : a \in 0..MaxPad, b \in 0..MaxPad}

S_LARGE_V3_TURBO == <<"L", "A", "R", "G", "E", "-", "V", "3", "-", "T", "U", "R", "B", "O">>
S_Base == <<"B", "a", "s", "e">>

\* configured values of LOCAL_WHISPER_MODEL (os.getenv returns a str, "" included)
Defaults == {S_large_v3_turbo, S_base, <<>>, <<" ">>} \cup Padded(S_base)

\* configured values of LOCAL_WHISPER_COMPUTE_TYPE
ComputeTypes == {S_auto, S_float16}

S_AUTO == <<"A", "U", "T", "O">>
S_FLOAT16 == <<"F", "L", "O", "A", "T", "1", "6">>

\* more values of LOCAL_WHISPER_COMPUTE_TYPE: empty, blank, other cases, padded
ComputeTypeSettings ==
    {<<>>, <<" ">>, S_auto, S_AUTO, S_int8, S_int8_float32, S_float16, S_FLOAT16,
     <<" ">> \o S_float16 \o <<" ">>}

\* the "model" form field and the "model" query parameter of a request
FormValues == {NoneVal, S_base, S_large_v3_turbo, <<" ">>}
QueryValues == {NoneVal, S_base}

\* file.filename, and what "await file.read()" gives: bytes, or "raise"
Filenames == {<<>>, <<"a", ".", "w", "a", "v">>, <<"a">>}
ReadRaises == <<"raise">>
Uploads == {ReadRaises, <<>>, <<"b">>}

\* str(exc) of the ValueErrors the WhisperModel constructor raises
S_unsupported == <<"u", "n", "s", "u", "p", "p", "o", "r", "t", "e", "d">>
S_Not_Found == <<"N", "o", "t", " ", "F", "o", "u", "n", "d">>
ValueErrorMsgs == {S_unsupported, S_Not_Found}

\* segment.text of the segments model.transcribe yields
S_hi == <<" ", "h", "i">>
S_yo == <<"y", "o", " ">>
SegmentTexts == {<<>>, <<S_hi>>, <<S_hi, <<" ">>, S_yo>>}

\* names get_model is called with directly
DirectNames == {S_base, S_large_v3_turbo, S_large_v3}

\* Path(filename).suffix
RECURSIVE LastDot(_, _)
LastDot(s, i) == IF i = 0 THEN 0 ELSE IF s[i] = "." THEN i ELSE LastDot(s, i - 1)

PathSuffix(filename) ==
    LET i == LastDot(filename, Len(filename))
    IN  IF i > 1 /\ i < Len(filename) THEN SubSeq(filename, i, Len(filename)) ELSE <<>>

S_mp3 == <<".", "m", "p", "3">>

---------------------------------------------------------------------------
(* State *)

NoReq == [filename |-> NoneVal, form |-> NoneVal, query |-> NoneVal, upload |-> NoneVal]

NoLoc == [file_bytes |-> <<>>, temp_path |-> NoPath, selected_model |-> <<>>,
          model |-> NoModel, full_text |-> <<>>, segments |-> <<>>, pending |-> NoResp]

NoGm == [caller |-> "none", model_name |-> <<>>, normalized_name |-> <<>>,
         candidates |-> <<>>, idx |-> 0, last_error |-> NoExc, ret |-> NoModel]

\* attempts: the compute types the constructor was called with, in order;
\* errs: what each of those calls raised (NoExc for a call that returned);
\* hit: the call found the name in the cache; prior: the handles get_model had
\* returned for the name when this call began; retry: a call for the name had
\* failed when this call began; tmp: the temporary file created;
\* unlinked / unlink_failed: how the finally clause ended; entered: the request
\* called run_transcription
NoHist == [attempts |-> <<>>, errs |-> <<>>, hit |-> FALSE, prior |-> {}, retry |-> FALSE,
           tmp |-> NoPath, unlinked |-> FALSE, unlink_failed |-> FALSE,
           entered |-> FALSE]

\* a direct call of get_model as it ended: who called, with what, what came back
\* (ret or exc), and the call's history; NoCall after a step that ended none
NoCall == [by |-> 0, model_name |-> <<>>, normalized_name |-> <<>>, candidates |-> <<>>,
           ret |-> NoModel, exc |-> NoExc, attempts |-> <<>>, errs |-> <<>>,
           hit |-> FALSE, prior |-> {}, retry |-> FALSE]

\* no run_transcription call under way (SpecSegments)
NoRtCall == [at |-> "idle", texts |-> <<>>, full_text |-> <<>>, segments |-> <<>>]

InitProcs ==
    /\ _MODEL_CACHE = <<>>
    /\ _MODEL_LOCK = 0
    /\ loop = 0
    /\ files = <<>>
    /\ nextTmp = 0
    /\ nextObj = 0
    /\ pc = [p \in Procs |-> "idle"]
    /\ req = [p \in Procs |-> NoReq]
    /\ loc = [p \in Procs |-> NoLoc]
    /\ gm = [p \in Procs |-> NoGm]
    /\ exc = [p \in Procs |-> NoExc]
    /\ resp = [p \in Procs |-> NoResp]
    /\ hist = [p \in Procs |-> NoHist]
    /\ loads = {}
    /\ returned = {}
    /\ failed = {}
    /\ lastCall = NoCall

Init ==
    /\ DEFAULT_MODEL_NAME \in {S_large_v3_turbo, S_base}
    /\ WHISPER_COMPUTE_TYPE \in ComputeTypes
    /\ InitProcs
    /\ normIn = <<>>
    /\ normOut = <<>>
    /\ rtCall = NoRtCall

config == <<DEFAULT_MODEL_NAME, WHISPER_COMPUTE_TYPE>>
normVars == <<normIn, normOut>>
gmHistory == <<loads, returned, failed, lastCall>>
handlerVars == <<loop, files, nextTmp, req, loc, resp>>

---------------------------------------------------------------------------
(* get_model, lines 67-111 *)

\* the identity of the next exception object process p creates
NewExc(p) == <<p, Len(hist[p].errs) + 1>>

\* (a variant that does not wait for the lock)
LockIgnored == TRUE

\* "with _MODEL_LOCK:" may be entered when the lock is free
LockFree == _MODEL_LOCK = 0

\* (a variant whose with block keeps the lock)
WithExitKeeps(holder) == holder

\* leaving "with _MODEL_LOCK:" by return or by an exception releases the lock
WithExit(holder) == 0

\* get_model is left with a handle (e = NoExc) or with exception e, the call's
\* history being h, and the lock is released.  A handle goes to run_transcription
\* (line 115) and on to model.transcribe; an exception goes through
\* run_transcription to the handler's except clauses.  A direct caller's frame is
\* gone with the call: what it got is in lastCall until the next step.
Leave(p, model, e, h) ==
    /\ _MODEL_LOCK' = WithExit(_MODEL_LOCK)
    /\ returned' = IF e = NoExc THEN returned \cup {model} ELSE returned
    /\ failed' = IF e = NoExc THEN failed ELSE failed \cup {gm[p].normalized_name}
    /\ IF gm[p].caller = "direct"
       THEN /\ pc' = [pc EXCEPT ![p] = "done"]
            /\ gm' = [gm EXCEPT ![p] = NoGm]
            /\ hist' = [hist EXCEPT ![p] = NoHist]
            /\ lastCall' = [by |-> p, model_name |-> gm[p].model_name,
                            normalized_name |-> gm[p].normalized_name,
                            candidates |-> gm[p].candidates,
                            ret |-> model, exc |-> e, attempts |-> h.attempts,
                            errs |-> h.errs, hit |-> h.hit, prior |-> h.prior,
                            retry |-> h.retry]
            /\ UNCHANGED <<loc, exc>>
       ELSE /\ pc' = [pc EXCEPT ![p] = IF e = NoExc THEN "rt_transcribe" ELSE "h_except"]
            /\ gm' = [gm EXCEPT ![p].ret = model]
            /\ hist' = [hist EXCEPT ![p] = h]
            /\ loc' = [loc EXCEPT ![p].model = model]
            /\ exc' = [exc EXCEPT ![p] = e]
            /\ lastCall' = NoCall

GmReturn(p, model, h) == Leave(p, model, NoExc, h)

GmRaise(p, e, h) == Leave(p, NoModel, e, h)

\* line 68
GmEnter(p) ==
    /\ pc[p] = "gm_enter"
    /\ lastCall' = NoCall
    /\ LET normalized_name == normalize_model_name(gm[p].model_name)
       IN  /\ gm' = [gm EXCEPT ![p].normalized_name = normalized_name]
           /\ hist' = [hist EXCEPT ![p].prior = {h \in returned : h.name = normalized_name},
                                    ![p].retry = normalized_name \in failed]
    /\ pc' = [pc EXCEPT ![p] = "gm_lock"]
    /\ UNCHANGED <<config, _MODEL_CACHE, _MODEL_LOCK, handlerVars, nextObj, exc,
                   loads, returned, failed, normVars, rtCall>>

\* line 69: acquire
GmLock(p) ==
    /\ pc[p] = "gm_lock"
    /\ lastCall' = NoCall
    /\ LockFree
    /\ _MODEL_LOCK' = p
    /\ pc' = [pc EXCEPT ![p] = "gm_check"]
    /\ UNCHANGED <<config, _MODEL_CACHE, handlerVars, nextObj, gm, exc, hist,
                   loads, returned, failed, normVars, rtCall>>

\* (a variant that starts at the last candidate)
FirstTurnLast(candidates) == Len(candidates)

\* line 74: the loop starts at the first candidate
FirstTurn(candidates) == 1

\* lines 70-74: the lookup; on a miss, the candidate list and the loop's first turn
GmCheck(p) ==
    /\ pc[p] = "gm_check"
    /\ IF gm[p].normalized_name \in DOMAIN _MODEL_CACHE
       THEN GmReturn(p, _MODEL_CACHE[gm[p].normalized_name],
                     [hist[p] EXCEPT !.hit = TRUE])
       ELSE /\ gm' = [gm EXCEPT ![p].candidates = _compute_type_candidates,
                                ![p].idx = FirstTurn(_compute_type_candidates),
                                ![p].last_error = NoExc]
            /\ pc' = [pc EXCEPT ![p] = IF _compute_type_candidates = <<>>
                                       THEN "gm_fail" ELSE "gm_try"]
            /\ lastCall' = NoCall
            /\ UNCHANGED <<_MODEL_LOCK, loc, exc, returned, failed, hist>>
    /\ UNCHANGED <<config, _MODEL_CACHE, loop, files, nextTmp, req, resp, nextObj,
                   loads, normVars, rtCall>>

\* lines 75-86: the constructor is called with the current candidate
GmTry(p) ==
    /\ pc[p] = "gm_try"
    /\ lastCall' = NoCall
    /\ hist' = [hist EXCEPT ![p].attempts = Append(@, gm[p].candidates[gm[p].idx])]
    /\ pc' = [pc EXCEPT ![p] = "gm_ctor"]
    /\ UNCHANGED <<config, _MODEL_CACHE, _MODEL_LOCK, handlerVars, nextObj, gm, exc,
                   loads, returned, failed, normVars, rtCall>>

\* (a variant that stores nothing)
CacheStoreNothing(cache, name, model) == cache

\* (a variant that keeps the new entry only)
CacheStoreAlone(cache, name, model) == name :> model

\* line 87: _MODEL_CACHE[normalized_name] = model
CacheStore(cache, name, model) == (name :> model) @@ cache

\* (a variant that skips a candidate)
NextTurnSkipsOne(idx, candidates) == idx + 2

\* the loop's next turn after a ValueError: line 97, then line 74 or line 99
NextTurn(idx, candidates) == idx + 1

\* what the constructor raises: the exception's class and str(exc)
CtorErrors ==
    {[type |-> "ValueError", msg |-> msg] : msg \in ValueErrorMsgs}
        \cup {[type |-> "RuntimeError", msg |-> S_Not_Found]}

\* (a variant that catches every exception)
CaughtAny(e) == TRUE

\* line 88: except ValueError
Caught(e) == e.type = "ValueError"

\* lines 82-97: the constructor returns a handle, or raises; a ValueError is caught
\* and the loop goes on, anything else leaves get_model
GmCtor(p) ==
    /\ pc[p] = "gm_ctor"
    /\ \/ LET model == [id |-> nextObj + 1, name |-> gm[p].normalized_name,
                        device |-> WHISPER_DEVICE,
                        compute_type |-> gm[p].candidates[gm[p].idx]]
          IN  /\ _MODEL_CACHE' = CacheStore(_MODEL_CACHE, gm[p].normalized_name, model)
              /\ loads' = loads \cup {model}
              /\ nextObj' = nextObj + 1
              /\ GmReturn(p, model, [hist[p] EXCEPT !.errs = Append(@, NoExc)])
       \/ \E raised \in CtorErrors :
            LET e == [id |-> NewExc(p), type |-> raised.type, msg |-> raised.msg,
                      cause |-> NoExc.id]
                idx == NextTurn(gm[p].idx, gm[p].candidates)
            IN  IF Caught(e)
                THEN /\ gm' = [gm EXCEPT ![p].last_error = e, ![p].idx = idx]
                     /\ hist' = [hist EXCEPT ![p].errs = Append(@, e)]
                     /\ pc' = [pc EXCEPT ![p] = IF idx > Len(gm[p].candidates)
                                                THEN "gm_fail" ELSE "gm_try"]
                     /\ lastCall' = NoCall
                     /\ UNCHANGED <<_MODEL_CACHE, _MODEL_LOCK, nextObj, loc, exc, loads,
                                    returned, failed>>
                ELSE /\ GmRaise(p, e, [hist[p] EXCEPT !.errs = Append(@, e)])
                     /\ UNCHANGED <<_MODEL_CACHE, nextObj, loads>>
    /\ UNCHANGED <<config, loop, files, nextTmp, req, resp, normVars, rtCall>>

\* lines 99-111: every candidate raised ValueError
GmFail(p) ==
    /\ pc[p] = "gm_fail"
    /\ LET message == Unable_head \o gm[p].normalized_name \o Unable_tail
           last_error == gm[p].last_error
       IN  IF last_error # NoExc
           THEN IF Missing(last_error)
                THEN GmRaise(p, [id |-> NewExc(p), type |-> "ModelNotAvailableError",
                                 msg |-> message \o NotLocal, cause |-> last_error.id],
                             hist[p])
                ELSE GmRaise(p, last_error, hist[p])
           ELSE GmRaise(p, [id |-> NewExc(p), type |-> "RuntimeError",
                            msg |-> message, cause |-> NoExc.id], hist[p])
    /\ UNCHANGED <<config, _MODEL_CACHE, loop, files, nextTmp, nextObj, req, resp, loads,
                   normVars, rtCall>>

GetModel(p) == GmEnter(p) \/ GmLock(p) \/ GmCheck(p) \/ GmTry(p) \/ GmCtor(p) \/ GmFail(p)

---------------------------------------------------------------------------
(* run_transcription, lines 114-142 *)

RECURSIVE Join(_, _)
\* sep.join(texts)
Join(texts, sep) ==
    IF texts = <<>> THEN <<>>
    ELSE IF Len(texts) = 1 THEN texts[1]
    ELSE texts[1] \o sep \o Join(Tail(texts), sep)

RECURSIVE CollectedTextKeepsBlanks(_)
\* (a variant without the test of line 125)
CollectedTextKeepsBlanks(texts) ==
    IF texts = <<>> THEN <<>>
    ELSE <<Strip(Or(Head(texts), <<>>))>> \o CollectedTextKeepsBlanks(Tail(texts))

RECURSIVE CollectedText(_)
\* lines 124-126 over the whole sequence: the trimmed texts that are not empty
CollectedText(texts) ==
    IF texts = <<>> THEN <<>>
    ELSE LET text == Strip(Or(Head(texts), <<>>))
         IN  IF text # <<>> THEN <<text>> \o CollectedText(Tail(texts))
             ELSE CollectedText(Tail(texts))

\* lines 127-140: one record per segment, id = enumerate's index
SegmentRecords(texts) ==
    [i \in 1..Len(texts) |->
        [id |-> i - 1, seek |-> 0, text |-> texts[i], temperature |-> 0]]

\* line 141
FullText(texts) == Strip(Join(CollectedText(texts), <<" ">>))

S_decode_failed == <<"d", "e", "c", "o", "d", "e", " ", "f", "a", "i", "l", "e", "d">>

\* lines 116-142: model.transcribe and the loop over its segments; either may raise
RtTranscribe(p) ==
    /\ pc[p] = "rt_transcribe"
    /\ \/ \E texts \in SegmentTexts :
            /\ loc' = [loc EXCEPT ![p].full_text = FullText(texts),
                                  ![p].segments = SegmentRecords(texts)]
            /\ pc' = [pc EXCEPT ![p] = "h_completed"]
            /\ exc' = exc
       \/ /\ exc' = [exc EXCEPT ![p] = [id |-> NewExc(p), type |-> "RuntimeError",
                                        msg |-> S_decode_failed, cause |-> NoExc.id]]
          /\ pc' = [pc EXCEPT ![p] = "h_except"]
          /\ loc' = loc
    /\ UNCHANGED <<config, _MODEL_CACHE, _MODEL_LOCK, loop, files, nextTmp, nextObj, req,
                   resp, gm, hist, gmHistory, normVars, rtCall>>

---------------------------------------------------------------------------
(* create_transcription, lines 145-211 *)

\* the coroutine ends with `response` (returned, or raised as an HTTPException, or
\* made by the framework from an exception nothing caught)
Respond(p, response) ==
    /\ resp' = [resp EXCEPT ![p] = response]
    /\ pc' = [pc EXCEPT ![p] = "responded"]
    /\ loop' = p

\* a request arrives: the framework schedules the endpoint coroutine
Arrive(p) ==
    /\ pc[p] = "idle"
    /\ pc' = [pc EXCEPT ![p] = "h_start"]
    /\ UNCHANGED <<config, _MODEL_CACHE, _MODEL_LOCK, loop, files, nextTmp, nextObj, req,
                   loc, gm, exc, resp, hist, gmHistory, normVars, rtCall>>

\* lines 151-155: the coroutine starts when the loop is idle, checks the filename
\* and awaits file.read(), which gives the loop up
HStart(p) ==
    /\ pc[p] = "h_start"
    /\ loop = 0
    /\ \E filename \in Filenames :
        /\ req' = [req EXCEPT ![p].filename = filename]
        /\ IF filename = <<>>
           THEN Respond(p, HTTPException(400, D400_filename))
           ELSE /\ pc' = [pc EXCEPT ![p] = "h_read"]
                /\ UNCHANGED <<loop, resp>>
    /\ UNCHANGED <<config, _MODEL_CACHE, _MODEL_LOCK, files, nextTmp, nextObj, loc, gm,
                   exc, hist, gmHistory, normVars, rtCall>>

\* (a variant without the check of line 160)
ReadCheckNoEmpty(upload) ==
    IF upload = ReadRaises THEN HTTPException(400, D400_read) ELSE NoResp

\* lines 154-161: the HTTPException the read ends in, if any
ReadCheck(upload) ==
    IF upload = ReadRaises THEN HTTPException(400, D400_read)
    ELSE IF upload = <<>> THEN HTTPException(400, D400_empty)
    ELSE NoResp

\* lines 155-161: the read completes and the coroutine is resumed; from here to
\* its end it never awaits, so it keeps the loop
HRead(p) ==
    /\ pc[p] = "h_read"
    /\ loop = 0
    /\ \E upload \in Uploads :
        /\ req' = [req EXCEPT ![p].upload = upload]
        /\ IF ReadCheck(upload) # NoResp
           THEN /\ Respond(p, ReadCheck(upload))
                /\ loc' = loc
           ELSE /\ loc' = [loc EXCEPT ![p].file_bytes = upload]
                /\ pc' = [pc EXCEPT ![p] = "h_tmp"]
                /\ loop' = p
                /\ resp' = resp
    /\ UNCHANGED <<config, _MODEL_CACHE, _MODEL_LOCK, files, nextTmp, nextObj, gm, exc,
                   hist, gmHistory, normVars, rtCall>>

\* (a variant that gives every file the same name)
TempPathReused(n, suffix) == <<1, suffix>>

\* the name NamedTemporaryFile picks once n files were made: one never used before
TempPath(n, suffix) == <<n + 1, suffix>>

\* lines 163-164: NamedTemporaryFile(delete=False, suffix=suffix) creates a file
\* under a name no other file has, or raises OSError
HTmp(p) ==
    /\ pc[p] = "h_tmp"
    /\ loop = p
    /\ \/ LET suffix == Or(PathSuffix(req[p].filename), S_mp3)
              path == TempPath(nextTmp, suffix)
          IN  /\ files' = (path :> <<>>) @@ files
              /\ nextTmp' = nextTmp + 1
              /\ hist' = [hist EXCEPT ![p].tmp = path]
              /\ pc' = [pc EXCEPT ![p] = "h_write"]
              /\ UNCHANGED <<loop, resp>>
       \/ /\ Respond(p, HTTPException(500, D500_unhandled))
          /\ UNCHANGED <<files, nextTmp, hist>>
    /\ UNCHANGED <<config, _MODEL_CACHE, _MODEL_LOCK, nextObj, req, loc, gm, exc,
                   gmHistory, normVars, rtCall>>

\* lines 165-166: the bytes are written and the file closed; a failing write
\* (OSError) leaves the with block, which closes the file and, with delete=False,
\* does not remove it, and the exception leaves the handler
HWrite(p) ==
    /\ pc[p] = "h_write"
    /\ loop = p
    /\ \/ /\ files' = [files EXCEPT ![hist[p].tmp] = loc[p].file_bytes]
          /\ loc' = [loc EXCEPT ![p].temp_path = hist[p].tmp]
          /\ pc' = [pc EXCEPT ![p] = "h_norm"]
          /\ UNCHANGED <<loop, resp>>
       \/ /\ Respond(p, HTTPException(500, D500_unhandled))
          /\ UNCHANGED <<files, loc>>
    /\ UNCHANGED <<config, _MODEL_CACHE, _MODEL_LOCK, nextTmp, nextObj, req, gm, exc,
                   hist, gmHistory, normVars, rtCall>>

\* lines 168-174: model or request.query_params.get("model"), normalized
HNorm(p) ==
    /\ pc[p] = "h_norm"
    /\ loop = p
    /\ \E form \in FormValues, query \in QueryValues :
        /\ req' = [req EXCEPT ![p].form = form, ![p].query = query]
        /\ loc' = [loc EXCEPT ![p].selected_model = normalize_model_name(Or(form, query))]
    /\ pc' = [pc EXCEPT ![p] = "h_try"]
    /\ UNCHANGED <<config, _MODEL_CACHE, _MODEL_LOCK, loop, files, nextTmp, nextObj, gm,
                   exc, resp, hist, gmHistory, normVars, rtCall>>

\* lines 176-178 and 115: run_transcription(temp_path, selected_model) calls get_model
HTry(p) ==
    /\ pc[p] = "h_try"
    /\ loop = p
    /\ gm' = [gm EXCEPT ![p] = [NoGm EXCEPT !.caller = "run_transcription",
                                            !.model_name = loc[p].selected_model]]
    /\ hist' = [hist EXCEPT ![p].entered = TRUE]
    /\ pc' = [pc EXCEPT ![p] = "gm_enter"]
    /\ UNCHANGED <<config, _MODEL_CACHE, _MODEL_LOCK, handlerVars, nextObj, exc,
                   gmHistory, normVars, rtCall>>

\* lines 179-187: run_transcription returned; the completion is logged
HCompleted(p) ==
    /\ pc[p] = "h_completed"
    /\ loop = p
    /\ pc' = [pc EXCEPT ![p] = "h_finally"]
    /\ UNCHANGED <<config, _MODEL_CACHE, _MODEL_LOCK, handlerVars, nextObj, gm, exc, hist,
                   gmHistory, normVars, rtCall>>

\* (a variant whose generic clause comes first)
ExceptClausesGenericFirst(e, selected_model) == HTTPException(500, D500)

\* lines 188-196: the except clauses, in their order
ExceptClauses(e, selected_model) ==
    IF e.type = "ModelNotAvailableError"
    THEN HTTPException(503, D503_head \o selected_model \o D503_tail)
    ELSE HTTPException(500, D500)

HExcept(p) ==
    /\ pc[p] = "h_except"
    /\ loop = p
    /\ loc' = [loc EXCEPT ![p].pending = ExceptClauses(exc[p], loc[p].selected_model)]
    /\ pc' = [pc EXCEPT ![p] = "h_finally"]
    /\ UNCHANGED <<config, _MODEL_CACHE, _MODEL_LOCK, loop, files, nextTmp, req, resp,
                   nextObj, gm, exc, hist, gmHistory, normVars, rtCall>>

\* lines 197-201: temp_path.unlink(); an OSError is logged and dropped.  Then the
\* HTTPException raised by an except clause leaves the handler, or line 203 is next
HFinally(p) ==
    /\ pc[p] = "h_finally"
    /\ loop = p
    /\ \/ /\ files' = [q \in DOMAIN files \ {loc[p].temp_path} |-> files[q]]
          /\ hist' = [hist EXCEPT ![p].unlinked = TRUE]
       \/ /\ files' = files
          /\ hist' = [hist EXCEPT ![p].unlink_failed = TRUE]
    /\ IF loc[p].pending # NoResp
       THEN Respond(p, loc[p].pending)
       ELSE /\ pc' = [pc EXCEPT ![p] = "h_return"]
            /\ UNCHANGED <<loop, resp>>
    /\ UNCHANGED <<config, _MODEL_CACHE, _MODEL_LOCK, nextTmp, nextObj, req, loc, gm, exc,
                   gmHistory, normVars, rtCall>>

\* lines 203-211 (the payload's uuid and timestamp are left out: nothing reads them)
HReturn(p) ==
    /\ pc[p] = "h_return"
    /\ loop = p
    /\ Respond(p, [status |-> 200, detail |-> <<>>,
                   body |-> [model |-> loc[p].selected_model,
                             text |-> loc[p].full_text,
                             segments |-> loc[p].segments]])
    /\ UNCHANGED <<config, _MODEL_CACHE, _MODEL_LOCK, files, nextTmp, nextObj, req, loc,
                   gm, exc, hist, gmHistory, normVars, rtCall>>

\* the response is sent and the task ends: the loop is free again, and the frame
\* and everything it referred to is released
Exit(p) ==
    /\ pc[p] = "responded"
    /\ pc' = [pc EXCEPT ![p] = "done"]
    /\ loop' = 0
    /\ req' = [req EXCEPT ![p] = NoReq]
    /\ loc' = [loc EXCEPT ![p] = NoLoc]
    /\ gm' = [gm EXCEPT ![p] = NoGm]
    /\ exc' = [exc EXCEPT ![p] = NoExc]
    /\ resp' = [resp EXCEPT ![p] = NoResp]
    /\ hist' = [hist EXCEPT ![p] = NoHist]
    /\ UNCHANGED <<config, _MODEL_CACHE, _MODEL_LOCK, files, nextTmp, nextObj,
                   gmHistory, normVars, rtCall>>

create_transcription(p) ==
    \/ HStart(p) \/ HRead(p) \/ HTmp(p) \/ HWrite(p) \/ HNorm(p) \/ HTry(p)
    \/ GetModel(p) \/ RtTranscribe(p)
    \/ HCompleted(p) \/ HExcept(p) \/ HFinally(p) \/ HReturn(p)

Next == \E p \in Procs : Arrive(p) \/ create_transcription(p) \/ Exit(p)

Spec == Init /\ [][Next]_vars

---------------------------------------------------------------------------
(* get_model called from several threads *)

\* a thread calls get_model(model_name)
TCall(p) ==
    /\ pc[p] = "idle"
    /\ lastCall' = NoCall
    /\ \E model_name \in DirectNames :
        gm' = [gm EXCEPT ![p] = [NoGm EXCEPT !.caller = "direct",
                                             !.model_name = model_name]]
    /\ pc' = [pc EXCEPT ![p] = "gm_enter"]
    /\ UNCHANGED <<config, _MODEL_CACHE, _MODEL_LOCK, handlerVars, nextObj, exc, hist,
                   loads, returned, failed, normVars, rtCall>>

NextThreads == \E p \in Procs : TCall(p) \/ GetModel(p)

SpecThreads == Init /\ [][NextThreads]_vars

---------------------------------------------------------------------------
(* requests and other threads calling get_model, under a fair scheduler *)

InitLive ==
    /\ DEFAULT_MODEL_NAME = S_base
    /\ WHISPER_COMPUTE_TYPE = S_auto
    /\ InitProcs
    /\ normIn = <<>>
    /\ normOut = <<>>
    /\ rtCall = NoRtCall

NextLive == \E p \in Procs : Arrive(p) \/ TCall(p) \/ create_transcription(p) \/ Exit(p)

\* every thread and the event loop get to run; the constructor, model.transcribe
\* and file.read() come back
SpecLive ==
    InitLive /\ [][NextLive]_vars
        /\ \A p \in Procs : WF_vars(create_transcription(p) \/ Exit(p))

---------------------------------------------------------------------------
(* get_model under every compute-type setting *)

InitCandidates ==
    /\ DEFAULT_MODEL_NAME = S_base
    /\ WHISPER_COMPUTE_TYPE \in ComputeTypeSettings
    /\ InitProcs
    /\ normIn = <<>>
    /\ normOut = <<>>
    /\ rtCall = NoRtCall

SpecCandidates == InitCandidates /\ [][NextThreads]_vars

---------------------------------------------------------------------------
(* run_transcription from line 116 on, on its own *)

\* segment.text of one segment: None, empty, blank, or words with blanks around
SegmentValues == {NoneVal, <<>>, <<" ">>, S_hi, S_yo}

\* what model.transcribe yields: up to MaxSegments segments
SegmentSeqs == UNION {[1..n -> SegmentValues] : n \in 0..MaxSegments}

RtCall ==
    /\ rtCall.at = "idle"
    /\ \E texts \in SegmentSeqs : rtCall' = [NoRtCall EXCEPT !.at = "called", !.texts = texts]
    /\ UNCHANGED <<config, _MODEL_CACHE, _MODEL_LOCK, handlerVars, nextObj, pc, gm, exc,
                   hist, gmHistory, normVars>>

\* lines 121-142
RtReturn ==
    /\ rtCall.at = "called"
    /\ rtCall' = [rtCall EXCEPT !.at = "returned",
                                !.full_text = FullText(rtCall.texts),
                                !.segments = SegmentRecords(rtCall.texts)]
    /\ UNCHANGED <<config, _MODEL_CACHE, _MODEL_LOCK, handlerVars, nextObj, pc, gm, exc,
                   hist, gmHistory, normVars>>

\* the call is over
RtDone ==
    /\ rtCall.at = "returned"
    /\ rtCall' = NoRtCall
    /\ UNCHANGED <<config, _MODEL_CACHE, _MODEL_LOCK, handlerVars, nextObj, pc, gm, exc,
                   hist, gmHistory, normVars>>

InitSegments ==
    /\ DEFAULT_MODEL_NAME = S_base
    /\ WHISPER_COMPUTE_TYPE = S_auto
    /\ InitProcs
    /\ normIn = <<>>
    /\ normOut = <<>>
    /\ rtCall = NoRtCall

NextSegments == RtCall \/ RtReturn \/ RtDone

SpecSegments == InitSegments /\ [][NextSegments]_vars

---------------------------------------------------------------------------
(* normalize_model_name on its own *)

\* requested names: None, blank strings, and names in either case with blanks around
NormInputs ==
    {NoneVal, <<"\t">>} \cup Padded(<<>>) \cup Padded(S_base) \cup Padded(S_Base)
        \cup Padded(S_large_v3_turbo) \cup Padded(S_LARGE_V3_TURBO) \cup Padded(S_large_v3)

NormCall ==
    /\ normIn = <<>>
    /\ \E x \in NormInputs, y \in NormInputs : normIn' = <<x, y>>
    /\ normOut' = <<>>
    /\ UNCHANGED <<config, _MODEL_CACHE, _MODEL_LOCK, handlerVars, nextObj, pc, gm, exc,
                   hist, gmHistory, rtCall>>

NormReturn ==
    /\ normIn # <<>>
    /\ normOut = <<>>
    /\ normOut' = <<normalize_model_name(normIn[1]), normalize_model_name(normIn[2])>>
    /\ UNCHANGED <<config, _MODEL_CACHE, _MODEL_LOCK, handlerVars, nextObj, pc, gm, exc,
                   hist, gmHistory, normIn, rtCall>>

\* the call is over
NormDone ==
    /\ normOut # <<>>
    /\ normIn' = <<>>
    /\ normOut' = <<>>
    /\ UNCHANGED <<config, _MODEL_CACHE, _MODEL_LOCK, handlerVars, nextObj, pc, gm, exc,
                   hist, gmHistory, rtCall>>

InitNorm ==
    /\ DEFAULT_MODEL_NAME \in Defaults
    /\ WHISPER_COMPUTE_TYPE = S_auto
    /\ InitProcs
    /\ normIn = <<>>
    /\ normOut = <<>>
    /\ rtCall = NoRtCall

NextNorm == NormCall \/ NormReturn \/ NormDone

SpecNorm == InitNorm /\ [][NextNorm]_vars

---------------------------------------------------------------------------
(* The claims *)

InRunTranscription(p) ==
    pc[p] \in {"gm_enter", "gm_lock", "gm_check", "gm_try", "gm_ctor", "gm_fail",
               "rt_transcribe"}

\* C1: every exit of create_transcription after the temporary file was created
\* leaves the file removed, unless the unlink itself failed.
C1_TempFileRemovedOnEveryExit ==
    \A p \in Procs :
        (pc[p] = "responded" /\ hist[p].tmp # NoPath /\ ~hist[p].unlink_failed)
            => hist[p].tmp \notin DOMAIN files

S_not_available_locally == <<"n", "o", "t", " ", "a", "v", "a", "i", "l", "a", "b", "l",
                             "e", " ", "l", "o", "c", "a", "l", "l", "y">>

\* C2: once run_transcription was called, its outcome alone decides the status:
\* ModelNotAvailableError gives 503 with a detail that names the resolved model and
\* says "not available locally"; any other exception gives 500 with the one fixed
\* detail, whatever its type and message; a normal return gives 200.
C2_StatusFollowsOutcome ==
    \A p \in Procs :
        (pc[p] = "responded" /\ hist[p].entered) =>
            /\ exc[p].type = "ModelNotAvailableError" =>
                /\ resp[p].status = 503
                /\ Contains(resp[p].detail, <<"'">> \o loc[p].selected_model \o <<"'">>)
                /\ Contains(resp[p].detail, S_not_available_locally)
            /\ exc[p].type \notin {"none", "ModelNotAvailableError"} =>
                /\ resp[p].status = 500
                /\ resp[p].detail = D500
            /\ exc[p] = NoExc => resp[p].status = 200

C2_Witness ==
    \E p \in Procs :
        /\ pc[p] = "responded"
        /\ hist[p].entered
        /\ exc[p].type = "ModelNotAvailableError"
        /\ resp[p].status = 503

\* C3: under any interleaving of get_model calls at most one thread is inside the
\* WhisperModel constructor, and the constructor succeeds at most once per
\* canonical name.
C3_OneLoadAtATime ==
    /\ Cardinality({p \in Procs : pc[p] = "gm_ctor"}) <= 1
    /\ \A h1 \in loads, h2 \in loads : h1.name = h2.name => h1 = h2

\* two calls race on one uncached name: one is in the constructor, the other waits
C3_Witness ==
    \E p \in Procs, q \in Procs :
        /\ pc[p] = "gm_ctor"
        /\ pc[q] = "gm_lock"
        /\ gm[p].normalized_name = gm[q].normalized_name
        /\ gm[p].normalized_name \notin DOMAIN _MODEL_CACHE

\* C4: once get_model has returned a handle for a canonical name, every call that
\* begins later with a name normalizing to it returns that same handle and calls
\* the constructor zero times.
C4_LaterCallsHitTheCache ==
    /\ \A h1 \in returned, h2 \in returned : h1.name = h2.name => h1 = h2
    /\ lastCall.prior # {} =>
        /\ lastCall.exc = NoExc
        /\ lastCall.ret \in lastCall.prior
        /\ lastCall.attempts = <<>>

C4_Witness ==
    /\ lastCall.prior # {}
    /\ lastCall.model_name = S_large_v3_turbo
    /\ lastCall.ret.name = S_large_v3

\* how far a call has come: part of the candidate list, in its order, each
\* attempt but the last having raised ValueError
InListOrder(a, e) ==
    /\ a = SubSeq(_compute_type_candidates, 1, Len(a))
    /\ Len(e) \in {Len(a), Len(a) - 1}
    /\ \A i \in 1..Len(e) : i < Len(a) => e[i].type = "ValueError"

\* C5: on a miss the candidates are tried strictly in list order, one constructor
\* call each, the next one only after a ValueError, and the first that constructs
\* ends the loop: it is stored under the canonical name and returned.  With
\* "float16" configured and failing and "int8_float32" succeeding, the attempts are
\* exactly float16, int8_float32.
C5_FallbackInOrder ==
    /\ \A p \in Procs : InListOrder(hist[p].attempts, hist[p].errs)
    /\ InListOrder(lastCall.attempts, lastCall.errs)
    /\ LET a == lastCall.attempts
           e == lastCall.errs
       IN  (lastCall.by # 0 /\ lastCall.exc = NoExc /\ ~lastCall.hit) =>
                /\ Len(e) = Len(a)
                /\ e[Len(a)] = NoExc
                /\ lastCall.ret.compute_type = a[Len(a)]
                /\ lastCall.ret.name = lastCall.normalized_name
                /\ _MODEL_CACHE[lastCall.normalized_name] = lastCall.ret
                /\ (WHISPER_COMPUTE_TYPE = S_float16 /\ Len(e) = 2) =>
                    /\ a = <<S_float16, S_int8_float32>>
                    /\ lastCall.ret.compute_type = S_int8_float32

C5_Witness ==
    /\ WHISPER_COMPUTE_TYPE = S_float16
    /\ lastCall.exc = NoExc
    /\ lastCall.attempts = <<S_float16, S_int8_float32>>
    /\ lastCall.errs[1].type = "ValueError"
    /\ lastCall.ret.compute_type = S_int8_float32

\* the call tried every candidate and each raised ValueError
Exhausted(p) ==
    /\ gm[p].candidates # <<>>
    /\ Len(hist[p].errs) = Len(gm[p].candidates)
    /\ \A i \in 1..Len(hist[p].errs) : hist[p].errs[i].type = "ValueError"

SaysMissing(msg) ==
    \/ Contains(Lower(msg), <<"n", "o", "t", " ", "f", "o", "u", "n", "d">>)
    \/ Contains(Lower(msg), <<"n", "o", " ", "s", "u", "c", "h", " ", "f", "i", "l", "e">>)
    \/ Contains(Lower(msg), <<"c", "o", "u", "l", "d", " ", "n", "o", "t", " ", "b", "e",
                              " ", "f", "o", "u", "n", "d">>)

\* C6: when every candidate raised ValueError, get_model raises
\* ModelNotAvailableError exactly when the lowercased message of the last error
\* has one of the three phrases, and otherwise re-raises that last error object;
\* earlier errors do not count.  The endpoint answers 503 in the first case and 500
\* in the second.
C6_LastErrorDecides ==
    \A p \in Procs :
        (pc[p] = "responded" /\ hist[p].entered /\ Exhausted(p)) =>
            LET last == hist[p].errs[Len(hist[p].errs)]
            IN  IF SaysMissing(last.msg)
                THEN /\ exc[p].type = "ModelNotAvailableError"
                     /\ exc[p].cause = last.id
                     /\ resp[p].status = 503
                ELSE /\ exc[p] = last
                     /\ resp[p].status = 500

\* an earlier error says "Not Found", the last one does not
C6_Witness ==
    \E p \in Procs :
        /\ pc[p] = "responded"
        /\ Exhausted(p)
        /\ Len(hist[p].errs) > 1
        /\ SaysMissing(hist[p].errs[1].msg)
        /\ ~SaysMissing(hist[p].errs[Len(hist[p].errs)].msg)
        /\ resp[p].status = 500

\* C7: while one request is inside run_transcription, another request that does
\* not need the lock (it waits to be started, or for its upload to be read) can
\* take its next step.
C7_OthersProgressDuringTranscription ==
    \A p \in Procs, q \in Procs :
        (p # q /\ InRunTranscription(p) /\ pc[q] \in {"h_start", "h_read"})
            => ENABLED (HStart(q) \/ HRead(q))

\* C8: a request is answered 400 exactly when its part has no filename, its read
\* raises or its bytes are empty; the rejection comes before any temporary file
\* and before run_transcription and get_model, and no step of the request up to
\* there changes the model cache or the files.
C8_RejectedBeforeAnyEffect ==
    [][\A p \in Procs :
        /\ (pc[p] \in {"h_start", "h_read"} /\ pc'[p] # pc[p]) =>
            /\ resp'[p].status = 400 <=>
                \/ req'[p].filename = <<>>
                \/ req'[p].upload = ReadRaises
                \/ req'[p].upload = <<>>
            /\ _MODEL_CACHE' = _MODEL_CACHE
            /\ files' = files
        /\ resp'[p].status = 400 =>
            /\ hist'[p].tmp = NoPath
            /\ ~hist'[p].entered
            /\ gm'[p] = NoGm
            /\ pc[p] \in {"h_start", "h_read", "responded"}]_vars

C8_Witness ==
    \E p \in Procs :
        /\ pc[p] = "responded"
        /\ resp[p].status = 400
        /\ req[p].upload = <<>>
        /\ DOMAIN _MODEL_CACHE # {}

\* a requested name carries no name: it is None, empty or all blanks
Blank(x) == x = NoneVal \/ \A i \in 1..Len(x) : IsSpace(x[i])

\* the configured default after the alias table
AliasResolvedDefault ==
    IF Lower(DEFAULT_MODEL_NAME) \in DOMAIN MODEL_ALIASES
    THEN MODEL_ALIASES[Lower(DEFAULT_MODEL_NAME)]
    ELSE DEFAULT_MODEL_NAME

\* C9: None, "" and every blank string normalize to the alias-resolved default;
\* the alias lookup ignores case and gives the alias target as written in the
\* table; blanks around the requested name never change the result.  With default
\* "large-v3-turbo", None and "LARGE-V3-TURBO" both give "large-v3".
C9_NormalizeBlankCaseAndPadding ==
    normOut # <<>> =>
        LET x == normIn[1]
            y == normIn[2]
        IN  /\ Blank(x) => normOut[1] = AliasResolvedDefault
            /\ (Blank(x) /\ Blank(y)) => normOut[1] = normOut[2]
            /\ (~Blank(x) /\ Lower(Strip(x)) \in DOMAIN MODEL_ALIASES)
                    => normOut[1] = MODEL_ALIASES[Lower(Strip(x))]
            /\ (~Blank(x) /\ ~Blank(y) /\ Strip(x) = Strip(y)) => normOut[1] = normOut[2]
            /\ (DEFAULT_MODEL_NAME = S_large_v3_turbo /\ x = NoneVal /\ y = S_LARGE_V3_TURBO)
                    => normOut = <<S_large_v3, S_large_v3>>

C9_Witness ==
    /\ DEFAULT_MODEL_NAME = S_large_v3_turbo
    /\ normIn = <<NoneVal, S_LARGE_V3_TURBO>>
    /\ normOut = <<S_large_v3, S_large_v3>>

\* C10: normalize_model_name returns a non-empty string for every requested name and
\* every configured default, the empty default included.
C10_NormalizeNeverEmpty ==
    normOut # <<>> => \A i \in 1..2 : normOut[i] # NoneVal /\ normOut[i] # <<>>

\* C11: the request's model is normalize(form) when the form field carries a
\* name, else normalize(query) when the query parameter carries one, else the
\* normalized default; None, "" and blank strings carry no name.  A blank form
\* field with query model=base gives "base".
C11_FormThenQueryThenDefault ==
    \A p \in Procs :
        pc[p] = "h_try" =>
            loc[p].selected_model =
                IF ~Blank(req[p].form) THEN normalize_model_name(req[p].form)
                ELSE IF ~Blank(req[p].query) THEN normalize_model_name(req[p].query)
                ELSE normalize_model_name(NoneVal)

\* C12: when the constructor raises something that is not a ValueError, that was
\* the call's last attempt, the exception leaves get_model as the object it is
\* (not as ModelNotAvailableError, whatever its message), the name is not in the
\* cache, and the endpoint answers 500.
C12_OtherExceptionsPropagate ==
    \A p \in Procs :
        \A i \in 1..Len(hist[p].errs) :
            hist[p].errs[i].type \notin {"none", "ValueError"} =>
                /\ i = Len(hist[p].errs)
                /\ Len(hist[p].attempts) = i
                /\ pc[p] \in {"h_except", "h_finally", "responded"}
                /\ exc[p] = hist[p].errs[i]
                /\ gm[p].normalized_name \notin DOMAIN _MODEL_CACHE
                /\ pc[p] = "responded" => (resp[p].status = 500 /\ resp[p].detail = D500)

\* the second candidate raised a RuntimeError that says "Not Found"
C12_Witness ==
    \E p \in Procs :
        /\ pc[p] = "responded"
        /\ Len(hist[p].errs) = 2
        /\ hist[p].errs[2].type = "RuntimeError"
        /\ SaysMissing(hist[p].errs[2].msg)
        /\ resp[p].status = 500

\* C13: for every compute-type setting the candidate list is non-empty and has
\* no element twice; its first element is the trimmed setting ("auto" for an
\* empty or blank one) and its last is "auto"; "int8_float32" and "int8" follow
\* the first element exactly when the setting is "float16" in any case.  So
\* get_model never reaches its last line with no error in hand, and a failing call
\* raises ModelNotAvailableError or an exception the constructor raised.
C13_CandidateList ==
    LET c == _compute_type_candidates
        trimmed == Strip(WHISPER_COMPUTE_TYPE)
        first == IF trimmed = <<>> THEN S_auto ELSE trimmed
    IN  /\ c # <<>>
        /\ \A i \in 1..Len(c), j \in 1..Len(c) : i # j => c[i] # c[j]
        /\ c[1] = first
        /\ c[Len(c)] = S_auto
        /\ Lower(first) = S_float16
                <=> (Len(c) >= 3 /\ c[2] = S_int8_float32 /\ c[3] = S_int8)
        /\ \A p \in Procs :
            /\ gm[p].candidates \in {<<>>, c}
            /\ pc[p] = "gm_fail" => gm[p].last_error.type = "ValueError"
        /\ lastCall.exc # NoExc =>
            \/ lastCall.exc.type = "ModelNotAvailableError"
            \/ \E i \in 1..Len(lastCall.errs) : lastCall.errs[i] = lastCall.exc

\* "FLOAT16" configured: four candidates were tried and the call failed
C13_Witness ==
    /\ WHISPER_COMPUTE_TYPE = S_FLOAT16
    /\ lastCall.attempts = <<S_FLOAT16, S_int8_float32, S_int8, S_auto>>
    /\ lastCall.exc.type = "ModelNotAvailableError"

\* C14: the cache only grows, under every interleaving of get_model calls: a name
\* that maps to a handle keeps mapping to that handle in every later state; every
\* key is a result of normalize_model_name, and every cached handle was returned
\* by a constructor call and was built for its key.
C14_CacheAppendOnly ==
    [][/\ \A k \in DOMAIN _MODEL_CACHE :
            /\ k \in DOMAIN _MODEL_CACHE'
            /\ _MODEL_CACHE'[k] = _MODEL_CACHE[k]
       /\ \A k \in DOMAIN _MODEL_CACHE' :
            /\ \E x \in DirectNames : k = normalize_model_name(x)
            /\ _MODEL_CACHE'[k] \in loads'
            /\ _MODEL_CACHE'[k].name = k]_vars

\* two names are cached; the call that just ended loaded one of them
C14_Witness ==
    /\ Cardinality(DOMAIN _MODEL_CACHE) = 2
    /\ lastCall.by # 0
    /\ ~lastCall.hit
    /\ lastCall.exc = NoExc

\* C15: a request's temporary file is its own: it is created under a name no
\* existing file and no other request has, it exists with the uploaded bytes all
\* through the request's run_transcription call, its content is written by its
\* request only, and it is removed only by its request's finally clause, after
\* run_transcription returned or raised.
C15_TempFilesArePrivate ==
    [][/\ \A p \in Procs :
            /\ pc'[p] \in {"gm_enter", "gm_lock", "gm_check", "gm_try", "gm_ctor",
                           "gm_fail", "rt_transcribe"} =>
                /\ loc'[p].temp_path \in DOMAIN files'
                /\ files'[loc'[p].temp_path] = req'[p].upload
                /\ req'[p].upload \notin {<<>>, ReadRaises}
            /\ (pc[p] = "h_tmp" /\ hist'[p].tmp # NoPath) =>
                hist'[p].tmp \notin DOMAIN files
            /\ \A q \in Procs \ {p} :
                hist'[p].tmp # NoPath => hist'[q].tmp # hist'[p].tmp
       /\ \A path \in DOMAIN files :
            /\ path \notin DOMAIN files' =>
                \E p \in Procs :
                    /\ pc[p] = "h_finally"
                    /\ hist[p].entered
                    /\ hist[p].tmp = path
                    /\ pc'[p] \in {"h_return", "responded"}
            /\ (path \in DOMAIN files' /\ files'[path] # files[path]) =>
                \E p \in Procs : pc[p] = "h_write" /\ hist[p].tmp = path]_vars

\* one request is transcribing its file while another is in flight, its upload
\* being read
C15_Witness ==
    \E p \in Procs, q \in Procs :
        /\ pc[p] = "rt_transcribe"
        /\ pc[q] = "h_read"
        /\ files[loc[p].temp_path] = <<"b">>

RECURSIVE JoinedNonBlank(_)
\* the trimmed non-blank texts in order with one space between them, built from
\* the last text backwards
JoinedNonBlank(texts) ==
    IF texts = <<>> THEN <<>>
    ELSE LET front == JoinedNonBlank(SubSeq(texts, 1, Len(texts) - 1))
             last == texts[Len(texts)]
         IN  IF Blank(last) THEN front
             ELSE IF front = <<>> THEN Strip(last)
             ELSE front \o <<" ">> \o Strip(last)

\* C16: run_transcription returns one record per yielded segment, in order, with
\* ids 0..n-1, seek 0, temperature 0 and the segment's own text; a segment whose
\* text is None, empty or blank has its record and id and adds nothing to the
\* full text, which is the trimmed non-blank texts joined by single spaces.
C16_OneRecordPerSegment ==
    rtCall.at = "returned" =>
        LET texts == rtCall.texts
            segments == rtCall.segments
        IN  /\ Len(segments) = Len(texts)
            /\ \A i \in 1..Len(texts) :
                /\ segments[i].id = i - 1
                /\ segments[i].seek = 0
                /\ segments[i].temperature = 0
                /\ segments[i].text = texts[i]
            /\ rtCall.full_text = JoinedNonBlank(texts)
            /\ rtCall.full_text = <<>> <=> \A i \in 1..Len(texts) : Blank(texts[i])

\* " hi", " ", "yo ": three records, and the text "hi yo"
C16_Witness ==
    /\ rtCall.at = "returned"
    /\ rtCall.texts = <<S_hi, <<" ">>, S_yo>>
    /\ Len(rtCall.segments) = 3
    /\ rtCall.segments[2].id = 1
    /\ rtCall.full_text = <<"h", "i", " ", "y", "o">>

\* C18: a get_model call that fails changes nothing in the cache (the cache
\* changes only in a step in which a constructor returned and its call returned
\* the handle), and a failure is not remembered: a call for a name that began
\* after a call for that name had failed, and misses, computes the candidate list
\* again, starts at its first candidate, and returns a handle exactly when its
\* last constructor call returned.
C18_FailureNotRemembered ==
    [][/\ _MODEL_CACHE' # _MODEL_CACHE =>
            /\ loads' # loads
            /\ lastCall'.by # 0
            /\ lastCall'.exc = NoExc
       /\ (lastCall'.by # 0 /\ lastCall'.exc # NoExc) =>
            /\ _MODEL_CACHE' = _MODEL_CACHE
            /\ lastCall'.normalized_name \notin DOMAIN _MODEL_CACHE'
            /\ lastCall'.normalized_name \in failed'
       /\ (lastCall'.by # 0 /\ lastCall'.retry /\ ~lastCall'.hit) =>
            /\ lastCall'.candidates = _compute_type_candidates
            /\ lastCall'.attempts # <<>>
            /\ lastCall'.attempts[1] = _compute_type_candidates[1]
            /\ lastCall'.exc = NoExc
                <=> lastCall'.errs[Len(lastCall'.errs)] = NoExc]_vars

\* after a failed call for the name, a call loads the model with the first candidate
C18_Witness ==
    /\ lastCall.by # 0
    /\ lastCall.retry
    /\ lastCall.exc = NoExc
    /\ lastCall.attempts = <<_compute_type_candidates[1]>>
    /\ _MODEL_CACHE[lastCall.normalized_name] = lastCall.ret

\* C17: the lock is held only between lines 70 and 111 of its holder's get_model
\* call (so it is free after every exit of get_model and while model.transcribe
\* runs); under a fair scheduler every thread that waits for the lock gets it, and
\* every request that was started ends with a response whose status is 200, 400,
\* 503 or 500.
C17_LockReleasedAndRequestsEnd ==
    /\ [](\A p \in Procs :
            _MODEL_LOCK = p => pc[p] \in {"gm_check", "gm_try", "gm_ctor", "gm_fail"})
    /\ \A p \in Procs : (pc[p] = "gm_lock") ~> (_MODEL_LOCK = p)
    /\ \A p \in Procs :
        (pc[p] = "h_start") ~>
            (pc[p] = "responded" /\ resp[p].status \in {200, 400, 503, 500})

\* a request waits for the lock while another thread holds it in the constructor
C17_Witness ==
    \E p \in Procs, q \in Procs :
        /\ pc[p] = "gm_lock"
        /\ gm[p].caller = "run_transcription"
        /\ _MODEL_LOCK = q
        /\ pc[q] = "gm_ctor"

\* C19: normalize_model_name is idempotent for every requested name and every
\* configured default: normalizing its result gives the result again (so the name
\* the handler reports is the key get_model uses).
C19_NormalizeIdempotent ==
    normOut # <<>> =>
        \A i \in 1..2 : normalize_model_name(normOut[i]) = normOut[i]

====
